---- MODULE Spec2Model ----
(***************************************************************************)
(* Change-detection engines of the three monitor scripts:                  *)
(*   car_scraper.py            CarScraper            (cs_ variables)       *)
(*   smart_autodeal_monitor.py SmartAutoDealMonitor  (ad_ variables)       *)
(*   yad2_monitor.py           Yad2MultiMonitor      (yad_ variables)      *)
(* Every script is started by an external scheduler, loads its storage     *)
(* file, performs one check and exits; the storage file is the only state  *)
(* that survives from one run to the next.                                 *)
(***************************************************************************)
EXTENDS Integers, Sequences, FiniteSets, TLC

VARIABLES
    cs_storage_file,    \* CarScraper storage file: NoFile or File(seen_ids)
    cs_prior,           \* last run: did the storage file exist when the run started
    cs_before,          \* last run: seen_cars as loaded by __init__
    cs_cars,            \* last run: the list returned by scrape_cars
    cs_new_cars,        \* last run: the list new_cars
    cs_seen_cars,       \* last run: seen_cars when run returns
    cs_messages,        \* last run: messages handed to send_telegram_message, in order
    cs_result,          \* last run: the value run returns
    cs_ran,             \* has any run of CarScraper completed
    cs_listings,        \* last run: the texts of the containers scrape_cars went through
    cs_fallback,        \* last run: no selector matched and the generic scan was used
    ad_storage_file,    \* SmartAutoDealMonitor storage file: NoFile or File(data)
    ad_now,             \* number of SmartAutoDealMonitor runs started (its clock)
    ad_messages,        \* last run: messages handed to send_telegram_message
    ad_load,            \* last run: did the driver load the page, was the scan of all
                        \* divs used, and how many elements went through the extraction
    ad_recorded,        \* history variable: ids persisted in last_fabia_ids by earlier runs
    ad_appended,        \* history variable: every entry ever appended to data['history']
    yad_storage_file,   \* Yad2MultiMonitor storage file: NoFile or File(data)
    yad_urls,           \* self.urls, the parsed configuration
    yad_now,            \* number of Yad2MultiMonitor runs started (its clock)
    yad_pc,             \* position of the running process in run()
    yad_i,              \* index of the next target of the for loop
    yad_data,           \* self.data
    yad_loaded,         \* self.data as load_data returned it
    yad_totals,         \* current_total of every target checked so far in this run
    yad_all_changes,    \* all_changes
    yad_first_run,      \* first_run_searches
    yad_errors,         \* errors
    yad_saves,          \* number of save_data calls of this run
    yad_messages,       \* messages handed to send_telegram_message in this run
    yad_appended        \* history variable: per search key, every entry ever appended

cs_vars == <<cs_storage_file, cs_prior, cs_before, cs_cars, cs_new_cars,
             cs_seen_cars, cs_messages, cs_result, cs_ran, cs_listings, cs_fallback>>
ad_vars == <<ad_storage_file, ad_now, ad_messages, ad_load, ad_recorded, ad_appended>>
yad_vars == <<yad_storage_file, yad_urls, yad_now, yad_pc, yad_i, yad_data,
              yad_loaded, yad_totals, yad_all_changes, yad_first_run, yad_errors,
              yad_saves, yad_messages, yad_appended>>
vars == <<cs_vars, ad_vars, yad_vars>>

\* A storage file: absent (os.path.exists is False) or holding a JSON document.
NoFile == [exists |-> FALSE]
File(d) == [exists |-> TRUE, data |-> d]

\* Python's None where an Optional[int] is expected; a parsed total is never negative.
None == -1
\* Python's None in a field that otherwise holds a string; str(None) is "None".
NoneStr == "None"

\* ---------------------------------------------------------------- helpers

SeqToSet(s) == {s[i] : i \in 1..Len(s)}

Last(s) == s[Len(s)]

SeqsUpTo(S, n) == UNION {[1..k -> S] : k \in 0..n}

\* Python's s[-n:] for n > 0
LastN(s, n) == IF Len(s) <= n THEN s ELSE SubSeq(s, Len(s) - n + 1, Len(s))

\* Python's s[:n]
FirstN(s, n) == IF Len(s) <= n THEN s ELSE SubSeq(s, 1, n)

Min(a, b) == IF a <= b THEN a ELSE b

\* Texts are sequences of characters; the digits are the characters "0".."9".
Digits == {"0", "1", "2", "3", "4", "5", "6", "7", "8", "9"}

DigitValue(c) ==
    CASE c = "0" -> 0 [] c = "1" -> 1 [] c = "2" -> 2 [] c = "3" -> 3 [] c = "4" -> 4
      [] c = "5" -> 5 [] c = "6" -> 6 [] c = "7" -> 7 [] c = "8" -> 8 [] c = "9" -> 9

\* int(s) for a string of digits, most significant first
RECURSIVE ParseInt(_, _)
ParseInt(s, acc) ==
    IF s = <<>> THEN acc ELSE ParseInt(Tail(s), 10 * acc + DigitValue(Head(s)))

\* The leading run of digits of a text
RECURSIVE DigitRun(_)
DigitRun(s) ==
    IF s = <<>> \/ Head(s) \notin Digits THEN <<>> ELSE <<Head(s)>> \o DigitRun(Tail(s))

\* re.findall(r'\d+', text): the maximal runs of digits, left to right
RECURSIVE FindNumbers(_)
FindNumbers(s) ==
    IF s = <<>> THEN <<>>
    ELSE IF Head(s) \in Digits
         THEN LET run == DigitRun(s)
              IN  <<run>> \o FindNumbers(SubSeq(s, Len(run) + 1, Len(s)))
         ELSE FindNumbers(Tail(s))

HasDigit(s) == \E i \in 1..Len(s) : s[i] \in Digits

\* ---------------------------------------------------------------- car_scraper.py

MaxListings == 3        \* listing containers on one fetched page
MaxPerCarMessages == 5  \* new_cars[:5]
NumSelectors == 10      \* len(listing_selectors)

\* Text contents (get_text(strip=True)) of the listing containers of a page.
CarTexts == {"a", "b", "c"}

\* hashlib.md5(text.encode()).hexdigest(): a non-empty digest, equal for equal texts.
md5(text) ==
    CASE text = ""  -> "d41d8cd9"
      [] text = "a" -> "0cc175b9"
      [] text = "b" -> "92eb5ffe"
      [] text = "c" -> "4a8a08f0"
      [] text = "d" -> "8277e091"
      [] text = "e" -> "e1671797"
      [] text = "f" -> "8fa14cdd"
      [] text = "g" -> "b2f5ff47"
      [] text = "h" -> "2510c390"

\* A fetched page: the request succeeds or raises; by_selector[k] holds the containers
\* that selector k of listing_selectors matches, generic the divs whose class has one
\* of the keywords of the generic scan.
CarPage(ok, by_selector, generic) ==
    [ok |-> ok, by_selector |-> by_selector, generic |-> generic]

\* The matches of a page on which only selector k matches, and matches the listings.
OnlySelector(k, listings) == [i \in 1..NumSelectors |-> IF i = k THEN listings ELSE <<>>]

NoSelector == [i \in 1..NumSelectors |-> <<>>]

CarPages ==
    {CarPage(TRUE, OnlySelector(2, listings), <<"c">>) :
        listings \in SeqsUpTo(CarTexts, MaxListings)}
    \cup {CarPage(FALSE, NoSelector, <<>>)}
    \cup {CarPage(TRUE, [OnlySelector(1, <<"a">>) EXCEPT ![3] = <<"b", "c">>], <<>>)}
    \cup {CarPage(TRUE, NoSelector, generic) : generic \in SeqsUpTo(CarTexts, 1)}

\* 'Try different common listing selectors': the matches of the first selector that
\* matches anything.
RECURSIVE FirstMatch(_)
FirstMatch(by_selector) ==
    IF by_selector = <<>> THEN <<>>
    ELSE IF Head(by_selector) # <<>> THEN Head(by_selector)
         ELSE FirstMatch(Tail(by_selector))

\* listings, the containers the extraction loop of scrape_cars goes through
select_listings(page) ==
    IF FirstMatch(page.by_selector) # <<>> THEN FirstMatch(page.by_selector)
    ELSE page.generic

extract_car_data(listing) == [id |-> md5(listing), raw_text |-> listing]

RECURSIVE CollectCars(_, _)
CollectCars(listings, cars) ==
    IF listings = <<>> THEN cars
    ELSE LET car_data == extract_car_data(Head(listings))
         IN  CollectCars(Tail(listings),
                         IF car_data.id # "" THEN Append(cars, car_data) ELSE cars)

\* scrape_cars: a failed request is caught and leaves the list empty.
scrape_cars(page) == IF page.ok THEN CollectCars(select_listings(page), <<>>) ELSE <<>>

load_seen_cars(file) == IF file.exists THEN file.data ELSE {}

\* save_seen_cars: a failure to write is caught and leaves the file as it was.
save_seen_cars(file, seen_cars, write_ok) == IF write_ok THEN File(seen_cars) ELSE file

\* FindNewCars without 'self.seen_cars.add(car['id'])'.
RECURSIVE FindNewCarsNoAdd(_, _, _)
FindNewCarsNoAdd(cars, seen_cars, new_cars) ==
    IF cars = <<>> THEN [new_cars |-> new_cars, seen_cars |-> seen_cars]
    ELSE IF Head(cars).id \notin seen_cars
         THEN FindNewCarsNoAdd(Tail(cars), seen_cars, Append(new_cars, Head(cars)))
         ELSE FindNewCarsNoAdd(Tail(cars), seen_cars, new_cars)

\* FindNewCars keeping the ids of the current page only.
RECURSIVE FindNewCarsForgetting(_, _, _)
FindNewCarsForgetting(cars, seen_cars, new_cars) ==
    IF cars = <<>> THEN [new_cars |-> new_cars, seen_cars |-> {}]
    ELSE LET rest == FindNewCarsForgetting(Tail(cars), seen_cars \cup {Head(cars).id},
                        IF Head(cars).id \notin seen_cars
                        THEN Append(new_cars, Head(cars)) ELSE new_cars)
         IN  [rest EXCEPT !.seen_cars = @ \cup {Head(cars).id}]

\* The loop of run that fills new_cars and grows seen_cars.
RECURSIVE FindNewCars(_, _, _)
FindNewCars(cars, seen_cars, new_cars) ==
    IF cars = <<>> THEN [new_cars |-> new_cars, seen_cars |-> seen_cars]
    ELSE IF Head(cars).id \notin seen_cars
         THEN FindNewCars(Tail(cars), seen_cars \cup {Head(cars).id},
                          Append(new_cars, Head(cars)))
         ELSE FindNewCars(Tail(cars), seen_cars, new_cars)

\* NewCarMessages without the [:5] of 'for car in new_cars[:5]'.
NewCarMessagesForAll(new_cars) ==
    [i \in 1..Len(new_cars) |-> [kind |-> "new_car", id |-> new_cars[i].id]]
        \o (IF Len(new_cars) > MaxPerCarMessages
            THEN <<[kind |-> "summary", id |-> ""]>> ELSE <<>>)

\* The messages run sends for new_cars: one per car for the first five, then a summary.
NewCarMessages(new_cars) ==
    LET shown == FirstN(new_cars, MaxPerCarMessages)
    IN  [i \in 1..Len(shown) |-> [kind |-> "new_car", id |-> shown[i].id]]
        \o (IF Len(new_cars) > MaxPerCarMessages
            THEN <<[kind |-> "summary", id |-> ""]>> ELSE <<>>)

\* 'First run notification': the test run makes after the new cars are handled.
IsFirstRunHeuristic(seen_cars, cars) == Cardinality(seen_cars) <= Len(cars)

InitializedMessage(seen_cars, cars) ==
    IF IsFirstRunHeuristic(seen_cars, cars)
    THEN <<[kind |-> "initialized", id |-> ""]>> ELSE <<>>

\* One scheduled execution of main(): CarScraper(config) loads the file, run() follows.
CarScraperRun(page, write_ok) ==
    LET before == load_seen_cars(cs_storage_file)
        cars   == scrape_cars(page)
        found  == FindNewCars(cars, before, <<>>)
    IN  /\ cs_prior' = cs_storage_file.exists
        /\ cs_before' = before
        /\ cs_cars' = cars
        /\ cs_new_cars' = found.new_cars
        /\ cs_seen_cars' = found.seen_cars
        /\ cs_messages' = NewCarMessages(found.new_cars)
                            \o InitializedMessage(found.seen_cars, cars)
        /\ cs_storage_file' = IF found.new_cars # <<>>
                              THEN save_seen_cars(cs_storage_file, found.seen_cars, write_ok)
                              ELSE cs_storage_file
        /\ cs_result' = Len(found.new_cars)
        /\ cs_ran' = TRUE
        /\ cs_listings' = IF page.ok THEN select_listings(page) ELSE <<>>
        /\ cs_fallback' = (page.ok /\ FirstMatch(page.by_selector) = <<>>)
        /\ UNCHANGED <<ad_vars, yad_vars>>

CarInit ==
    /\ cs_storage_file = NoFile
    /\ cs_prior = FALSE
    /\ cs_before = {}
    /\ cs_cars = <<>>
    /\ cs_new_cars = <<>>
    /\ cs_seen_cars = {}
    /\ cs_messages = <<>>
    /\ cs_result = 0
    /\ cs_ran = FALSE
    /\ cs_listings = <<>>
    /\ cs_fallback = FALSE

CarNext == \E page \in CarPages, write_ok \in BOOLEAN : CarScraperRun(page, write_ok)

\* ---------------------------------------------------------------- smart_autodeal_monitor.py

MaxAutoRuns == 3        \* runs of SmartAutoDealMonitor that are explored
MaxAutoListings == 2    \* listing elements on one loaded page
AutoHistoryLimit == 100 \* history[-100:]
AutoElementLimit == 50  \* elements[:50]
MinListingText == 10    \* len(listing_text) < 10

target_model == "fabia" \* config.get('target_model', <Fabia>)

\* models, the names extract_car_listings looks for, in its order
ModelNames == <<"fabia", "octavia">>

MaxDivText == 500       \* len(text) < 500

\* The text of a listing element, by what the extraction reads from it: its length,
\* the model names it contains, the first matches of the price and year patterns, and
\* whether it has the kilometre or the shekel sign.
AutoElements ==
    { [len |-> 40, names |-> {"fabia"},   year |-> "2020",  price |-> "50",    marked |-> TRUE],
      [len |-> 40, names |-> {"fabia"},   year |-> "2021",  price |-> NoneStr, marked |-> TRUE],
      [len |-> 40, names |-> {"octavia"}, year |-> "2020",  price |-> "50",    marked |-> TRUE],
      [len |-> 5,  names |-> {"fabia"},   year |-> NoneStr, price |-> NoneStr, marked |-> FALSE] }

\* The h1 elements of the page: whether the text has the 'found' word, and its characters.
AutoHeadings ==
    { <<>>,
      <<[found |-> TRUE, text |-> <<"1", "2">>]>>,
      <<[found |-> FALSE, text |-> <<"7">>], [found |-> TRUE, text |-> <<"x", "3", "x", "4">>]>> }

\* A page load: setup_driver and driver.get succeed or raise; elements are the matches
\* of the first selector of listing_selectors that matches anything, divs all the div
\* elements of the page.
AutoPages ==
    [driver_ok : BOOLEAN, headings : AutoHeadings,
     elements : SeqsUpTo(AutoElements, MaxAutoListings), divs : {<<>>}]
    \cup [driver_ok : {TRUE}, headings : {<<>>}, elements : {<<>>},
          divs : SeqsUpTo(AutoElements, 1)]

\* 'if not elements': the divs with a text that has a sign and is shorter than 500.
RECURSIVE ScanDivs(_)
ScanDivs(divs) ==
    IF divs = <<>> THEN <<>>
    ELSE IF Head(divs).len > 0 /\ Head(divs).marked /\ Head(divs).len < MaxDivText
         THEN <<Head(divs)>> \o ScanDivs(Tail(divs))
         ELSE ScanDivs(Tail(divs))

\* elements, as the extraction loop of extract_car_listings gets them
find_elements(page) == IF page.elements # <<>> THEN page.elements ELSE ScanDivs(page.divs)

RECURSIVE get_total_count(_)
get_total_count(h1_elements) ==
    IF h1_elements = <<>> THEN None
    ELSE LET text == Head(h1_elements).text
         IN  IF Head(h1_elements).found /\ HasDigit(text)
             THEN ParseInt(FindNumbers(text)[1], 0)
             ELSE get_total_count(Tail(h1_elements))

\* The first name of models that the listing text contains
RECURSIVE FirstModel(_, _)
FirstModel(models, listing_text) ==
    IF models = <<>> THEN NoneStr
    ELSE IF Head(models) \in listing_text.names THEN Head(models)
         ELSE FirstModel(Tail(models), listing_text)

\* car_info of one element; its id is f"{model}_{year}_{price}"
car_info(listing_text) ==
    LET model == FirstModel(ModelNames, listing_text)
    IN  [model |-> model, year |-> listing_text.year, price |-> listing_text.price,
         is_fabia |-> target_model \in listing_text.names,
         id |-> <<model, listing_text.year, listing_text.price>>]

RECURSIVE CollectListings(_)
CollectListings(elements) ==
    IF elements = <<>> THEN <<>>
    ELSE IF Head(elements).len < MinListingText
         THEN CollectListings(Tail(elements))
         ELSE <<car_info(Head(elements))>> \o CollectListings(Tail(elements))

extract_car_listings(elements) == CollectListings(FirstN(elements, AutoElementLimit))

RECURSIVE FilterTarget(_)
FilterTarget(listings) ==
    IF listings = <<>> THEN <<>>
    ELSE IF Head(listings).is_fabia \/ Head(listings).model = target_model
         THEN <<Head(listings)>> \o FilterTarget(Tail(listings))
         ELSE FilterTarget(Tail(listings))

RECURSIVE SelectIds(_, _)
SelectIds(listings, ids) ==
    IF listings = <<>> THEN <<>>
    ELSE IF Head(listings).id \in ids
         THEN <<Head(listings).id>> \o SelectIds(Tail(listings), ids)
         ELSE SelectIds(Tail(listings), ids)

AutoDefaultData ==
    [last_total |-> 0, last_fabia_count |-> 0, last_fabia_ids |-> <<>>,
     last_check |-> None, history |-> <<>>]

auto_load_data(file) == IF file.exists THEN file.data ELSE AutoDefaultData

\* save_data: a failure to write is caught and leaves the file as it was.
auto_save_data(file, data, now, write_ok) ==
    IF write_ok THEN File([data EXCEPT !.last_check = now]) ELSE file

\* 'Handle Logic': the message of a run that loaded its page
AutoNotification(data, fabia_listings, new_ids) ==
    IF data.last_fabia_count = 0 /\ Len(data.history) = 0
    THEN <<[kind |-> "initialized", ids |-> <<>>]>>
    ELSE IF new_ids # {}
         THEN <<[kind |-> "new", ids |-> SelectIds(fabia_listings, new_ids)]>>
         ELSE <<>>

\* 'Save Data': the data of a run that loaded its page
AutoUpdate(data, total_count, fabia_listings, now) ==
    LET history == Append(data.history,
                          [timestamp |-> now, total |-> total_count,
                           fabias |-> Len(fabia_listings)])
    IN  [data EXCEPT !.last_total = total_count,
                     !.last_fabia_count = Len(fabia_listings),
                     !.last_fabia_ids = [i \in 1..Len(fabia_listings) |-> fabia_listings[i].id],
                     !.history = IF Len(history) > AutoHistoryLimit
                                 THEN LastN(history, AutoHistoryLimit) ELSE history]

\* One scheduled execution of main(): SmartAutoDealMonitor(config), then run().
AutoDealRun(page, write_ok) ==
    LET now            == ad_now + 1
        data           == auto_load_data(ad_storage_file)
        total_count    == get_total_count(page.headings)
        fabia_listings == FilterTarget(extract_car_listings(find_elements(page)))
        new_ids        == {fabia_listings[i].id : i \in 1..Len(fabia_listings)}
                             \ SeqToSet(data.last_fabia_ids)
        updated        == AutoUpdate(data, total_count, fabia_listings, now)
        saved          == page.driver_ok /\ write_ok
    IN  /\ ad_now' = now
        /\ ad_messages' = IF page.driver_ok
                          THEN AutoNotification(data, fabia_listings, new_ids)
                          ELSE <<[kind |-> "error", ids |-> <<>>]>>
        /\ ad_storage_file' = IF page.driver_ok
                              THEN auto_save_data(ad_storage_file, updated, now, write_ok)
                              ELSE ad_storage_file
        /\ ad_load' = [driver_ok |-> page.driver_ok,
                       fallback |-> page.driver_ok /\ page.elements = <<>>,
                       elements |-> IF page.driver_ok
                                    THEN Len(FirstN(find_elements(page), AutoElementLimit))
                                    ELSE 0]
        /\ ad_recorded' = IF ad_storage_file.exists
                          THEN ad_recorded \cup SeqToSet(ad_storage_file.data.last_fabia_ids)
                          ELSE ad_recorded
        /\ ad_appended' = IF saved THEN Append(ad_appended, Last(updated.history))
                          ELSE ad_appended
        /\ UNCHANGED <<cs_vars, yad_vars>>

AutoInit ==
    /\ ad_storage_file = NoFile
    /\ ad_now = 0
    /\ ad_messages = <<>>
    /\ ad_load = [driver_ok |-> FALSE, fallback |-> FALSE, elements |-> 0]
    /\ ad_recorded = {}
    /\ ad_appended = <<>>

AutoNext ==
    /\ ad_now < MaxAutoRuns
    /\ \E page \in AutoPages, write_ok \in BOOLEAN : AutoDealRun(page, write_ok)

\* ---------------------------------------------------------------- yad2_monitor.py

MaxYadRuns == 2         \* runs of Yad2MultiMonitor that are explored
KeyLength == 100        \* url[:100]
YadHistoryLimit == 50   \* history[-50:]
StatusEvery == 50       \* total_checks % 50

\* A URL is its sequence of characters; LongUrl(c) is 100 equal characters and then c.
ShortUrl(c) == <<c>>
LongUrl(c) == [i \in 1..KeyLength |-> "w"] \o <<c>>

\* self.urls as parse_urls returns it: the configurations that are explored.
YadConfigs ==
    { <<[name |-> "mazda", url |-> ShortUrl("m")], [name |-> "kia", url |-> ShortUrl("k")]>>,
      <<[name |-> "mazda", url |-> ShortUrl("m")], [name |-> "kia", url |-> ShortUrl("k")],
        [name |-> "skoda", url |-> LongUrl("s")]>> }

\* What driver.get and the selectors give for one target: the load succeeds or raises,
\* an element for the total is found or every selector times out, and the element's text.
YadPages ==
    { [load_ok |-> FALSE, found |-> FALSE, text |-> <<>>],
      [load_ok |-> TRUE,  found |-> FALSE, text |-> <<>>],
      [load_ok |-> TRUE,  found |-> TRUE,  text |-> <<>>],
      [load_ok |-> TRUE,  found |-> TRUE,  text |-> <<"x">>],
      [load_ok |-> TRUE,  found |-> TRUE,  text |-> <<"1", "2", "0">>],
      [load_ok |-> TRUE,  found |-> TRUE,  text |-> <<"x", "1", "2", "5", "x", "7">>] }

get_total_for_url(page) ==
    IF ~page.load_ok THEN None
    ELSE IF page.found /\ page.text # <<>>
         THEN LET numbers == FindNumbers(page.text)
              IN  IF numbers # <<>> THEN ParseInt(numbers[1], 0) ELSE None
         ELSE None

search_key(url) == FirstN(url, KeyLength)

\* load_data; a fresh store has no searches and no 'last_check'.
YadDefaultData == [searches |-> <<>>, last_check |-> None]

yad_load_data(file) == IF file.exists THEN file.data ELSE YadDefaultData

\* save_data: a failure to write is caught and leaves the file as it was.
yad_save_data(file, data, now, write_ok) ==
    IF write_ok THEN File([data EXCEPT !.last_check = now]) ELSE file

\* searches[search_key] = entry
PutSearch(searches, key, entry) ==
    [k \in DOMAIN searches \cup {key} |-> IF k = key THEN entry ELSE searches[k]]

\* YadHistoryEntry recording the total before the change.
YadHistoryEntryPrevious(current_total, diff, now) ==
    [time |-> now, total |-> current_total - diff, change |-> diff]

YadHistoryEntry(current_total, diff, now) ==
    [time |-> now, total |-> current_total, change |-> diff]

\* YadAppendHistory keeping the first 50 entries instead of the last 50.
YadAppendHistoryKeepFirst(history, entry) == FirstN(Append(history, entry), YadHistoryLimit)

\* history after the append of one entry and the cut to the last 50
YadAppendHistory(history, entry) ==
    LET appended == Append(history, entry)
    IN  IF Len(appended) > YadHistoryLimit THEN LastN(appended, YadHistoryLimit)
        ELSE appended

\* The state the for loop of run works on is st = [data, all_changes,
\* first_run_searches, errors].

\* ErrorBranch taking a missing total for 'no listings'.
ErrorBranchZeroes(st, target) ==
    LET key == FirstN(target.url, KeyLength)
    IN  [st EXCEPT !.errors = Append(@, target.name),
                   !.data.searches = IF key \in DOMAIN @
                                     THEN [@ EXCEPT ![key].last_total = 0] ELSE @]

\* current_total is None: the name goes to errors and the loop continues.
ErrorBranch(st, target) == [st EXCEPT !.errors = Append(@, target.name)]

\* IsFirstTime inferring a first run from an empty history.
IsFirstTimeOrEmptyHistory(searches, key) ==
    key \notin DOMAIN searches \/ searches[key].history = <<>>

\* 'Initialize search data if first time'
IsFirstTime(searches, key) == key \notin DOMAIN searches

FirstRunBranch(st, target, key, current_total) ==
    [st EXCEPT
        !.data.searches = PutSearch(@, key,
            [name |-> target.name, url |-> target.url,
             last_total |-> current_total, history |-> <<>>]),
        !.first_run_searches = Append(@,
            [name |-> target.name, total |-> current_total, url |-> target.url])]

\* ChangeBranch without 'last_total = current_total'.
ChangeBranchStaleTotal(st, target, key, current_total, now) ==
    LET searches == st.data.searches
        last_total == searches[key].last_total
        diff == current_total - last_total
    IN  IF diff # 0
        THEN [st EXCEPT
                !.all_changes = Append(@,
                    [name |-> target.name, url |-> target.url, previous |-> last_total,
                     current |-> current_total, diff |-> diff]),
                !.data.searches = PutSearch(searches, key,
                    [searches[key] EXCEPT
                        !.history = YadAppendHistory(@,
                            YadHistoryEntry(current_total, diff, now))])]
        ELSE st

\* 'Check for changes'
ChangeBranch(st, target, key, current_total, now) ==
    LET searches == st.data.searches
        last_total == searches[key].last_total
        diff == current_total - last_total
    IN  IF diff # 0
        THEN [st EXCEPT
                !.all_changes = Append(@,
                    [name |-> target.name, url |-> target.url, previous |-> last_total,
                     current |-> current_total, diff |-> diff]),
                !.data.searches = PutSearch(searches, key,
                    [searches[key] EXCEPT
                        !.last_total = current_total,
                        !.history = YadAppendHistory(@,
                            YadHistoryEntry(current_total, diff, now))])]
        ELSE st

\* The body of the for loop of run for one target whose total is current_total.
CheckTarget(st, target, current_total, now) ==
    LET key == search_key(target.url)
    IN  IF current_total = None THEN ErrorBranch(st, target)
        ELSE IF IsFirstTime(st.data.searches, key)
             THEN FirstRunBranch(st, target, key, current_total)
             ELSE ChangeBranch(st, target, key, current_total, now)

\* NextTarget with 'break' where the code has 'continue'.
NextTargetBreak(i, n, current_total) == IF current_total = None THEN n + 1 ELSE i + 1

\* The target the loop takes after target i of n: 'continue' and the end of the body
\* both lead to the next one.
NextTarget(i, n, current_total) == i + 1

\* The for loop of run over targets whose totals are given, from state st.
RECURSIVE RunLoop(_, _, _, _)
RunLoop(st, targets, totals, now) ==
    IF targets = <<>> THEN st
    ELSE RunLoop(CheckTarget(st, Head(targets), Head(totals), now),
                 Tail(targets), Tail(totals), now)

\* The state of the loop before its first iteration.
LoopStart(data) ==
    [data |-> data, all_changes |-> <<>>, first_run_searches |-> <<>>, errors |-> <<>>]

RECURSIVE SumHistory(_)
SumHistory(searches) ==
    IF DOMAIN searches = {} THEN 0
    ELSE LET k == CHOOSE x \in DOMAIN searches : TRUE
         IN  Len(searches[k].history)
               + SumHistory([x \in DOMAIN searches \ {k} |-> searches[x]])

\* The notifications of run, in the order it attempts them.
YadNotifications(data, first_run_searches, all_changes, errors) ==
    (IF first_run_searches # <<>> THEN <<"first_run">> ELSE <<>>)
    \o (IF all_changes # <<>> THEN <<"changes">> ELSE <<>>)
    \o (IF errors # <<>> THEN <<"errors">> ELSE <<>>)
    \o (IF SumHistory(data.searches) > 0 /\ SumHistory(data.searches) % StatusEvery = 0
        THEN <<"status">> ELSE <<>>)

YadMessages(kinds, failing) ==
    [i \in 1..Len(kinds) |-> [kind |-> kinds[i], delivered |-> kinds[i] \notin failing]]

\* The entries of a log that are older than the last successful save
RolledBack(log, last_check) ==
    SelectSeq(log, LAMBDA e : last_check # None /\ e.time <= last_check)

\* YadStart that reports the failure of setup_driver and goes on to the loop.
YadStartGoesOn(driver_ok, send_ok) ==
    LET data == yad_load_data(yad_storage_file)
    IN  /\ yad_pc = "idle"
        /\ yad_now' = yad_now + 1
        /\ yad_data' = data
        /\ yad_loaded' = data
        /\ yad_i' = 1
        /\ yad_totals' = <<>>
        /\ yad_all_changes' = <<>>
        /\ yad_first_run' = <<>>
        /\ yad_errors' = <<>>
        /\ yad_saves' = 0
        /\ yad_appended' = [k \in DOMAIN data.searches |->
                               RolledBack(yad_appended[k], data.last_check)]
        /\ yad_pc' = "loop"
        /\ yad_messages' = IF driver_ok THEN <<>>
                           ELSE <<[kind |-> "general_error", delivered |-> send_ok]>>
        /\ UNCHANGED <<yad_storage_file, yad_urls, cs_vars, ad_vars>>

\* A scheduled execution begins: Yad2MultiMonitor(config) loads the file and run()
\* sets up the driver; when that raises, the error is reported and the run ends.
YadStart(driver_ok, send_ok) ==
    LET data == yad_load_data(yad_storage_file)
    IN  /\ yad_pc = "idle"
        /\ yad_now' = yad_now + 1
        /\ yad_data' = data
        /\ yad_loaded' = data
        /\ yad_i' = 1
        /\ yad_totals' = <<>>
        /\ yad_all_changes' = <<>>
        /\ yad_first_run' = <<>>
        /\ yad_errors' = <<>>
        /\ yad_saves' = 0
        /\ yad_appended' = [k \in DOMAIN data.searches |->
                               RolledBack(yad_appended[k], data.last_check)]
        /\ IF driver_ok
           THEN yad_pc' = "loop" /\ yad_messages' = <<>>
           ELSE yad_pc' = "idle"
                /\ yad_messages' = <<[kind |-> "general_error", delivered |-> send_ok]>>
        /\ UNCHANGED <<yad_storage_file, yad_urls, cs_vars, ad_vars>>

\* One iteration of the for loop.
YadCheck(page) ==
    LET target == yad_urls[yad_i]
        key == search_key(target.url)
        current_total == get_total_for_url(page)
        st == CheckTarget([data |-> yad_data, all_changes |-> yad_all_changes,
                           first_run_searches |-> yad_first_run, errors |-> yad_errors],
                          target, current_total, yad_now)
    IN  /\ yad_pc = "loop"
        /\ yad_i <= Len(yad_urls)
        /\ yad_data' = st.data
        /\ yad_all_changes' = st.all_changes
        /\ yad_first_run' = st.first_run_searches
        /\ yad_errors' = st.errors
        /\ yad_totals' = Append(yad_totals, current_total)
        /\ yad_i' = NextTarget(yad_i, Len(yad_urls), current_total)
        /\ yad_appended' =
             IF current_total = None THEN yad_appended
             ELSE IF key \notin DOMAIN yad_data.searches
             THEN PutSearch(yad_appended, key, <<>>)
             ELSE IF current_total # yad_data.searches[key].last_total
             THEN PutSearch(yad_appended, key,
                     Append(yad_appended[key],
                            YadHistoryEntry(current_total,
                               current_total - yad_data.searches[key].last_total, yad_now)))
             ELSE yad_appended
        /\ UNCHANGED <<yad_storage_file, yad_urls, yad_now, yad_pc, yad_loaded,
                       yad_saves, yad_messages, cs_vars, ad_vars>>

\* YadSave placed in the body of the loop: it runs after the first target.
YadSaveEarly(write_ok) ==
    /\ yad_pc = "loop"
    /\ yad_i > 1
    /\ yad_storage_file' = yad_save_data(yad_storage_file, yad_data, yad_now, write_ok)
    /\ yad_data' = [yad_data EXCEPT !.last_check = yad_now]
    /\ yad_saves' = yad_saves + 1
    /\ yad_pc' = "notify"
    /\ UNCHANGED <<yad_urls, yad_now, yad_i, yad_loaded, yad_totals, yad_all_changes,
                   yad_first_run, yad_errors, yad_messages, yad_appended, cs_vars, ad_vars>>

\* The loop is over: save_data.
YadSave(write_ok) ==
    /\ yad_pc = "loop"
    /\ yad_i > Len(yad_urls)
    /\ yad_storage_file' = yad_save_data(yad_storage_file, yad_data, yad_now, write_ok)
    /\ yad_data' = [yad_data EXCEPT !.last_check = yad_now]
    /\ yad_saves' = yad_saves + 1
    /\ yad_pc' = "notify"
    /\ UNCHANGED <<yad_urls, yad_now, yad_i, yad_loaded, yad_totals, yad_all_changes,
                   yad_first_run, yad_errors, yad_messages, yad_appended, cs_vars, ad_vars>>

\* The notifications, then close_driver: the run ends.
YadNotify(failing) ==
    LET kinds == YadNotifications(yad_data, yad_first_run, yad_all_changes, yad_errors)
    IN  /\ yad_pc = "notify"
        /\ failing \subseteq SeqToSet(kinds)
        /\ yad_messages' = yad_messages \o YadMessages(kinds, failing)
        /\ yad_pc' = "idle"
        /\ UNCHANGED <<yad_storage_file, yad_urls, yad_now, yad_i, yad_data, yad_loaded,
                       yad_totals, yad_all_changes, yad_first_run, yad_errors, yad_saves,
                       yad_appended, cs_vars, ad_vars>>

YadKinds == {"first_run", "changes", "errors", "status"}

YadInit(configs) ==
    /\ yad_storage_file = NoFile
    /\ yad_urls \in configs
    /\ yad_now = 0
    /\ yad_pc = "idle"
    /\ yad_i = 1
    /\ yad_data = YadDefaultData
    /\ yad_loaded = YadDefaultData
    /\ yad_totals = <<>>
    /\ yad_all_changes = <<>>
    /\ yad_first_run = <<>>
    /\ yad_errors = <<>>
    /\ yad_saves = 0
    /\ yad_messages = <<>>
    /\ yad_appended = <<>>

YadNext ==
    \/ yad_now < MaxYadRuns /\ \E driver_ok, send_ok \in BOOLEAN : YadStart(driver_ok, send_ok)
    \/ \E page \in YadPages : YadCheck(page)
    \/ \E write_ok \in BOOLEAN : YadSave(write_ok)
    \/ \E failing \in SUBSET YadKinds : YadNotify(failing)

\* ---------------------------------------------------------------- specifications

Init == CarInit /\ AutoInit /\ YadInit(YadConfigs)

Next == CarNext \/ AutoNext \/ YadNext

Spec == Init /\ [][Next]_vars

\* Each script alone, the other two never started.
SpecCarScraper == Init /\ [][CarNext]_vars
SpecAutoDeal == Init /\ [][AutoNext]_vars
SpecYad2 == Init /\ [][YadNext]_vars

\* Long histories: many runs of the two monitors that keep a history, against a site
\* whose pages depend on the time of the check only, with storage and driver working.
MaxAutoHistoryRuns == 102
MaxYadHistoryRuns == 53

HistoryConfigs == { <<[name |-> "mazda", url |-> ShortUrl("m")]>> }

AutoPageAt(now) ==
    [driver_ok |-> TRUE,
     headings |-> <<[found |-> TRUE, text |-> <<"1", "2">>]>>,
     elements |-> IF now % 2 = 0
                  THEN <<[len |-> 40, names |-> {"fabia"}, year |-> "2020", price |-> "50",
                          marked |-> TRUE]>>
                  ELSE <<>>,
     divs |-> <<>>]

YadPageAt(now) ==
    [load_ok |-> TRUE, found |-> TRUE,
     text |-> IF now % 2 = 0 THEN <<"1", "2", "0">> ELSE <<"1", "2", "5">>]

HistoryInit == CarInit /\ AutoInit /\ YadInit(HistoryConfigs)

HistoryNext ==
    \/ ad_now < MaxAutoHistoryRuns /\ AutoDealRun(AutoPageAt(ad_now), TRUE)
    \/ yad_now < MaxYadHistoryRuns /\ YadStart(TRUE, TRUE)
    \/ YadCheck(YadPageAt(yad_now))
    \/ YadSave(TRUE)
    \/ YadNotify({})

SpecHistory == HistoryInit /\ [][HistoryNext]_vars

\* ---------------------------------------------------------------- CarScraper properties

CarIds(cars) == {cars[i].id : i \in 1..Len(cars)}

CarSent(kind) == \E i \in 1..Len(cs_messages) : cs_messages[i].kind = kind

\* C1: a run of CarScraper that found no storage file notifies no extracted record as
\* a new item: it sends no 'New Car Listed' message and no 'Found N new cars' summary.
C1_FirstRunNotifiesNothingNew ==
    (cs_ran /\ ~cs_prior) => (~CarSent("new_car") /\ ~CarSent("summary"))

\* C2: a run of CarScraper sends 'Car monitor initialized' if and only if no storage
\* file existed when the run started.
C2_InitializedIffNoPriorSnapshot ==
    cs_ran => (CarSent("initialized") <=> ~cs_prior)

\* C3: in a run of CarScraper that found a storage file with the ids S and extracted
\* the ids C, new_cars holds exactly the ids of C \ S, each once, the run returns
\* |C \ S| and seen_cars ends as S \cup C.
C3_NewCarsAreTheDifference ==
    (cs_ran /\ cs_prior) =>
        LET S == cs_before
            C == CarIds(cs_cars)
        IN  /\ CarIds(cs_new_cars) = C \ S
            /\ \A i, j \in 1..Len(cs_new_cars) :
                   cs_new_cars[i].id = cs_new_cars[j].id => i = j
            /\ cs_result = Cardinality(C \ S)
            /\ cs_seen_cars = S \cup C

C3_Witness ==
    /\ cs_ran /\ cs_prior
    /\ cs_before = {md5("a"), md5("b")}
    /\ CarIds(cs_cars) = {md5("a"), md5("b"), md5("c")}
    /\ Len(cs_new_cars) = 1 /\ cs_new_cars[1].id = md5("c")
    /\ cs_seen_cars = {md5("a"), md5("b"), md5("c")}

C5_RecordedIdNeverNotifiedAgain ==
    \A i \in 1..Len(ad_messages) :
        ad_messages[i].kind = "new" => SeqToSet(ad_messages[i].ids) \cap ad_recorded = {}

\* ---------------------------------------------------------------- Yad2MultiMonitor properties

\* This step is one iteration of the for loop of run.
YadChecked == Len(yad_totals') = Len(yad_totals) + 1

YadSearches(file) == yad_load_data(file).searches

\* C6: an iteration whose total is None appends the target's name to errors, leaves
\* data['searches'], first_run_searches and all_changes as they were, and the loop
\* goes on to the next target.
C6_NoTotalLeavesSnapshot ==
    [][ (YadChecked /\ Last(yad_totals') = None) =>
            /\ yad_errors' = Append(yad_errors, yad_urls[yad_i].name)
            /\ yad_data'.searches = yad_data.searches
            /\ yad_first_run' = yad_first_run
            /\ yad_all_changes' = yad_all_changes
            /\ yad_i' = yad_i + 1
            /\ yad_pc' = "loop" ]_vars

C6_Witness ==
    /\ yad_now = 2
    /\ yad_totals = <<None>>
    /\ yad_errors = <<yad_urls[1].name>>
    /\ search_key(yad_urls[1].url) \in DOMAIN yad_data.searches
    /\ yad_data.searches = yad_loaded.searches

\* C7: an iteration for a target that has an entry, with a total that is not None,
\* computes delta = current_total - last_total; when delta is not 0 it sets last_total
\* to current_total, appends one history entry with that total and change (dropping
\* the oldest beyond 50) and appends the change to all_changes; when delta is 0 it
\* leaves the entry and the three lists as they were.
C7_DeltaOfExistingEntry ==
    [][ LET key == search_key(yad_urls[yad_i].url)
            current_total == Last(yad_totals')
        IN  (YadChecked /\ current_total # None /\ key \in DOMAIN yad_data.searches) =>
              LET old == yad_data.searches[key]
                  new == yad_data'.searches[key]
                  delta == current_total - old.last_total
              IN  IF delta # 0
                  THEN /\ new.last_total = current_total
                       /\ Len(new.history) = Min(Len(old.history) + 1, YadHistoryLimit)
                       /\ Last(new.history).total = current_total
                       /\ Last(new.history).change = delta
                       /\ SubSeq(new.history, 1, Len(new.history) - 1)
                            = LastN(old.history, Len(new.history) - 1)
                       /\ Len(yad_all_changes') = Len(yad_all_changes) + 1
                       /\ Last(yad_all_changes').name = yad_urls[yad_i].name
                       /\ Last(yad_all_changes').diff = delta
                       /\ Last(yad_all_changes').current = current_total
                       /\ yad_first_run' = yad_first_run
                       /\ yad_errors' = yad_errors
                  ELSE /\ yad_data'.searches = yad_data.searches
                       /\ yad_all_changes' = yad_all_changes
                       /\ yad_first_run' = yad_first_run
                       /\ yad_errors' = yad_errors ]_vars

C7_Witness ==
    \E key \in DOMAIN yad_data.searches :
        /\ key \in DOMAIN yad_loaded.searches
        /\ yad_loaded.searches[key].last_total = 120
        /\ yad_data.searches[key].last_total = 125
        /\ Len(yad_data.searches[key].history) = 1
        /\ yad_data.searches[key].history[1].total = 125
        /\ yad_data.searches[key].history[1].change = 5
        /\ Len(yad_all_changes) = 1 /\ yad_all_changes[1].diff = 5

\* C8: an iteration for a target that has no entry, with a total that is not None,
\* creates the entry with last_total = current_total and an empty history and puts the
\* target in first_run_searches, not in all_changes; no run puts into
\* first_run_searches a target whose entry it loaded from the storage file, and no
\* entry ever leaves the storage file.
C8_FirstRunOnlyOnce ==
    [][ /\ LET key == search_key(yad_urls[yad_i].url)
               current_total == Last(yad_totals')
           IN  (YadChecked /\ current_total # None /\ key \notin DOMAIN yad_data.searches) =>
                 /\ key \in DOMAIN yad_data'.searches
                 /\ yad_data'.searches[key].last_total = current_total
                 /\ yad_data'.searches[key].history = <<>>
                 /\ yad_first_run' = Append(yad_first_run,
                        [name |-> yad_urls[yad_i].name, total |-> current_total,
                         url |-> yad_urls[yad_i].url])
                 /\ yad_all_changes' = yad_all_changes
        /\ \A i \in 1..Len(yad_first_run') :
               search_key(yad_first_run'[i].url) \notin DOMAIN yad_loaded'.searches
        /\ DOMAIN YadSearches(yad_storage_file) \subseteq DOMAIN YadSearches(yad_storage_file')
      ]_vars

C8_Witness ==
    /\ yad_now = 2
    /\ Len(yad_totals) = 2 /\ yad_totals[1] # None /\ yad_totals[2] # None
    /\ search_key(yad_urls[1].url) \in DOMAIN yad_loaded.searches
    /\ search_key(yad_urls[2].url) \notin DOMAIN yad_loaded.searches
    /\ Len(yad_first_run) = 1 /\ yad_first_run[1].name = yad_urls[2].name
    /\ yad_all_changes = <<>>

\* C9: the history of every search entry of Yad2MultiMonitor has at most 50 entries and
\* the history of SmartAutoDealMonitor at most 100, in memory and in the storage file,
\* and they are the entries appended last, in the order of their appends.
C9_HistoriesAreBoundedAndRecent ==
    /\ \A key \in DOMAIN yad_data.searches :
          /\ Len(yad_data.searches[key].history) <= 50
          /\ yad_data.searches[key].history = LastN(yad_appended[key], 50)
    /\ \A key \in DOMAIN YadSearches(yad_storage_file) :
          /\ Len(YadSearches(yad_storage_file)[key].history) <= 50
          /\ YadSearches(yad_storage_file)[key].history
               = LastN(RolledBack(yad_appended[key], yad_storage_file.data.last_check), 50)
    /\ Len(auto_load_data(ad_storage_file).history) <= 100
    /\ auto_load_data(ad_storage_file).history = LastN(ad_appended, 100)

C9_Witness ==
    /\ Len(ad_appended) > 100
    /\ Len(auto_load_data(ad_storage_file).history) = 100
    /\ \E key \in DOMAIN yad_data.searches :
          /\ Len(yad_appended[key]) > 50
          /\ Len(yad_data.searches[key].history) = 50
          /\ key \in DOMAIN YadSearches(yad_storage_file)
          /\ Len(YadSearches(yad_storage_file)[key].history) = 50

Without(s, k) == [i \in 1..(Len(s) - 1) |-> IF i < k THEN s[i] ELSE s[i + 1]]

YadFailed == {i \in 1..Len(yad_totals) : yad_totals[i] = None}

\* C10: when the loop of a run is over every target has been checked; if exactly one
\* target k gave no total, data['searches'], all_changes and first_run_searches are
\* what the loop gives for the other targets alone, and errors holds just the name of k.
C10_OneFailureIsIsolated ==
    /\ yad_pc = "notify" => Len(yad_totals) = Len(yad_urls)
    /\ (Len(yad_totals) = Len(yad_urls) /\ Cardinality(YadFailed) = 1) =>
          LET k == CHOOSE i \in YadFailed : TRUE
              others == RunLoop(LoopStart(yad_loaded), Without(yad_urls, k),
                                Without(yad_totals, k), yad_now)
          IN  /\ yad_data.searches = others.data.searches
              /\ yad_all_changes = others.all_changes
              /\ yad_first_run = others.first_run_searches
              /\ yad_errors = <<yad_urls[k].name>>

C10_Witness ==
    /\ yad_pc = "notify"
    /\ yad_now = 2
    /\ Len(yad_urls) = 3
    /\ YadFailed = {2}
    /\ Len(yad_all_changes) = 2
    /\ search_key(yad_urls[2].url) \in DOMAIN yad_data.searches

\* ---------------------------------------------------------------- snapshot slots

\* Two searches whose URLs differ after their first 100 characters only, and one
\* short URL.
SharedPrefixConfigs ==
    { <<[name |-> "skoda", url |-> LongUrl("s")], [name |-> "toyota", url |-> LongUrl("t")],
        [name |-> "kia", url |-> ShortUrl("k")]>> }

SharedPrefixInit == CarInit /\ AutoInit /\ YadInit(SharedPrefixConfigs)

SpecSharedPrefix == SharedPrefixInit /\ [][YadNext]_vars

\* C11: targets with different URLs that a run has checked used different keys of
\* data['searches'], so the entry an iteration reads or writes is the one made for its
\* own URL and every change is a difference from a last_total of the same URL.
C11_OneSlotPerTarget ==
    /\ \A i, j \in 1..Len(yad_totals) :
          (yad_totals[i] # None /\ yad_totals[j] # None /\ yad_urls[i].url # yad_urls[j].url)
             => search_key(yad_urls[i].url) # search_key(yad_urls[j].url)
    /\ \A i \in 1..Len(yad_totals) :
          yad_totals[i] # None
             => yad_data.searches[search_key(yad_urls[i].url)].url = yad_urls[i].url
    /\ \A i \in 1..Len(yad_all_changes) :
          yad_data.searches[search_key(yad_all_changes[i].url)].url = yad_all_changes[i].url

\* ---------------------------------------------------------------- persist and notify

YadSent(kind) == \E i \in 1..Len(yad_messages) : yad_messages[i].kind = kind

\* C12 as stated: every run calls save_data exactly once, and before any notification.
C12_SaveOnceInEveryRun ==
    /\ (yad_pc = "idle" /\ yad_now > 0) => yad_saves = 1
    /\ yad_messages # <<>> => yad_saves = 1

\* C12, amended: in a run whose driver was set up, save_data is called exactly once,
\* after the last target and before any notification, and no target is checked after
\* it; a run whose driver could not be set up does not call it.
C12_SaveOnceAfterTheLoop ==
    [][ /\ (yad_saves' # yad_saves /\ yad_saves' # 0) =>
              /\ yad_saves = 0 /\ yad_saves' = 1
              /\ yad_i > Len(yad_urls) /\ Len(yad_totals) = Len(yad_urls)
              /\ yad_messages = <<>>
        /\ YadChecked => (yad_saves = 0 /\ yad_messages = <<>>)
        /\ (yad_messages' # yad_messages /\ yad_messages' # <<>>) =>
              \/ yad_saves' = 1 /\ yad_pc = "notify"
              \/ yad_saves' = 0 /\ yad_pc = "idle" /\ yad_pc' = "idle"
        /\ (yad_pc # "idle" /\ yad_pc' = "idle") => yad_saves' = 1
        /\ (yad_pc = "idle" /\ yad_pc' = "idle") => yad_saves' = 0 ]_vars

C12_Witness ==
    /\ yad_pc = "idle" /\ yad_now = 2
    /\ yad_saves = 1
    /\ Len(yad_totals) = Len(yad_urls)
    /\ YadSent("changes") /\ YadSent("errors")
    /\ yad_storage_file.exists /\ yad_storage_file.data.last_check = 2

\* C13: when the notification of the changes of a run was not delivered, the storage
\* file does not hold the new total of any of them, so that a later run finds the
\* change again.
C13_UndeliveredChangeIsKept ==
    (yad_pc = "idle" /\ \E i \in 1..Len(yad_messages) :
                           yad_messages[i].kind = "changes" /\ ~yad_messages[i].delivered) =>
        \A i \in 1..Len(yad_all_changes) :
            LET key == search_key(yad_all_changes[i].url)
            IN  ~(/\ key \in DOMAIN YadSearches(yad_storage_file)
                  /\ YadSearches(yad_storage_file)[key].last_total
                       = yad_all_changes[i].current)

\* ---------------------------------------------------------------- no fetch mechanism

\* Both Selenium monitors of the workflow, one target, a site that alternates between
\* two pages, and a driver that may fail to start.
MaxDriverRuns == 2

DriverAutoPages ==
    {AutoPageAt(0), AutoPageAt(1), [AutoPageAt(0) EXCEPT !.driver_ok = FALSE]}

DriverNext ==
    \/ /\ ad_now < MaxDriverRuns
       /\ \E page \in DriverAutoPages, write_ok \in BOOLEAN : AutoDealRun(page, write_ok)
    \/ /\ yad_now < MaxDriverRuns
       /\ \E driver_ok, send_ok \in BOOLEAN : YadStart(driver_ok, send_ok)
    \/ \E now \in 0..1 : YadCheck(YadPageAt(now))
    \/ \E write_ok \in BOOLEAN : YadSave(write_ok)
    \/ \E failing \in SUBSET {"first_run", "changes"} : YadNotify(failing)

SpecDriver == HistoryInit /\ [][DriverNext]_vars

\* C14: a run of either monitor whose driver cannot be set up attempts exactly one
\* error notification, checks no target, leaves the storage file as it was without
\* calling save_data, and ends with no driver open (the driver of the Yad2 monitor is
\* open exactly while yad_pc is not "idle").
C14_NoDriverNoRun ==
    [][ /\ yad_now' = yad_now + 1 =>
              \/ yad_pc' = "loop" /\ yad_messages' = <<>>
              \/ /\ yad_pc' = "idle"
                 /\ Len(yad_messages') = 1 /\ yad_messages'[1].kind = "general_error"
                 /\ yad_totals' = <<>>
                 /\ yad_saves' = 0
                 /\ yad_storage_file' = yad_storage_file
        /\ YadSent("general_error") =>
              /\ yad_pc = "idle" /\ Len(yad_messages) = 1
              /\ (yad_now' = yad_now =>
                     /\ yad_storage_file' = yad_storage_file
                     /\ yad_totals' = <<>> /\ yad_saves' = 0
                     /\ yad_messages' = yad_messages)
        /\ (ad_now' = ad_now + 1 /\ ~ad_load'.driver_ok) =>
              /\ ad_messages' = <<[kind |-> "error", ids |-> <<>>]>>
              /\ ad_load'.elements = 0
              /\ ad_storage_file' = ad_storage_file
              /\ ad_appended' = ad_appended ]_vars

C14_Witness ==
    /\ YadSent("general_error") /\ yad_now = 2 /\ yad_pc = "idle"
    /\ yad_storage_file.exists /\ yad_storage_file.data.last_check = 1
    /\ ad_now = 2 /\ ~ad_load.driver_ok
    /\ ad_storage_file.exists /\ Len(ad_storage_file.data.history) = 1

\* ---------------------------------------------------------------- extraction batches

\* C15: the records of a batch of scrape_cars have non-empty, pairwise distinct ids.
C15_BatchIdsAreDistinct ==
    \A i, j \in 1..Len(cs_cars) :
        /\ cs_cars[i].id # ""
        /\ i # j => cs_cars[i].id # cs_cars[j].id

\* A site that lists up to MaxBurst cars, in a fixed order, of which a page shows the
\* first or the last ones, and pages with containers that have no text.
MaxBurst == 7

BurstTexts == <<"a", "b", "c", "d", "e", "f", "g", "h">>

CarSitePages ==
    {CarPage(TRUE, OnlySelector(2, SubSeq(BurstTexts, 1, n)), <<>>) : n \in 0..MaxBurst}
    \cup {CarPage(TRUE, OnlySelector(2, SubSeq(BurstTexts, n, MaxBurst)), <<>>) :
             n \in 2..MaxBurst}
    \cup {CarPage(TRUE, OnlySelector(2, listings), <<>>) : listings \in SeqsUpTo({"", "a"}, 2)}
    \cup {CarPage(TRUE, NoSelector, <<"">>), CarPage(FALSE, NoSelector, <<>>)}

CarSiteNext == \E page \in CarSitePages, write_ok \in BOOLEAN : CarScraperRun(page, write_ok)

SpecCarSite == Init /\ [][CarSiteNext]_vars

\* C16: the batch of scrape_cars has one record for each container with a non-empty
\* text, in the order of the containers, and none for a container with an empty text,
\* whose digest therefore is not in seen_cars.
C16_EmptyTextIsDropped ==
    LET kept == SelectSeq(cs_listings, LAMBDA text : text # "")
    IN  /\ cs_cars = [i \in 1..Len(kept) |-> extract_car_data(kept[i])]
        /\ md5("") \notin cs_seen_cars

\* Pages on which no selector matches, with a number of containers around the limit.
ManyContainers == 52

MaxFallbackRuns == 2

FallbackSizes == {0, 1, AutoElementLimit, AutoElementLimit + 1, ManyContainers}

FallbackCarPages ==
    {CarPage(TRUE, NoSelector, [i \in 1..n |-> "a"]) : n \in FallbackSizes}
    \cup {CarPage(TRUE, OnlySelector(1, <<"b">>), <<"a">>)}

FallbackAutoPages ==
    {[driver_ok |-> TRUE, headings |-> <<>>, elements |-> <<>>,
      divs |-> [i \in 1..n |-> [len |-> 40, names |-> {"fabia"}, year |-> "2020",
                                price |-> "50", marked |-> TRUE]]] : n \in FallbackSizes}
    \cup {AutoPageAt(0)}

FallbackNext ==
    \/ \E page \in FallbackCarPages, write_ok \in BOOLEAN : CarScraperRun(page, write_ok)
    \/ /\ ad_now < MaxFallbackRuns
       /\ \E page \in FallbackAutoPages, write_ok \in BOOLEAN : AutoDealRun(page, write_ok)

SpecFallback == Init /\ [][FallbackNext]_vars

\* C17: when no selector matches, the containers that scrape_cars and
\* extract_car_listings go through are at most 50.
C17_FallbackYieldsAtMostFifty ==
    /\ cs_fallback => Len(cs_listings) <= 50
    /\ ad_load.fallback => ad_load.elements <= 50

\* ---------------------------------------------------------------- bursts of new cars

CarNotified(messages) ==
    {messages[i].id : i \in {k \in 1..Len(messages) : messages[k].kind = "new_car"}}

CarCount(messages, kind) ==
    Cardinality({i \in 1..Len(messages) : messages[i].kind = kind})

C19_LastTotalIsLastHistoryTotal ==
    \A searches \in {yad_data.searches, YadSearches(yad_storage_file)} :
        \A key \in DOMAIN searches :
            /\ searches[key].history # <<>> =>
                  searches[key].last_total = Last(searches[key].history).total
            /\ \A i \in 1..Len(searches[key].history) : searches[key].history[i].change # 0

C19_Witness ==
    /\ yad_storage_file.exists
    /\ \E key \in DOMAIN YadSearches(yad_storage_file) :
          /\ YadSearches(yad_storage_file)[key].history # <<>>
          /\ YadSearches(yad_storage_file)[key].last_total = 125

====
